---------------------------- MODULE Spec2Model ----------------------------
(***************************************************************************)
(* Model of the mock emission-data generator (mockDataGenerator: the       *)
(* profile store, the reading generator, the historical backfill) and of   *)
(* the emissions endpoints of the tRPC router that persist its readings    *)
(* and raise threshold alerts.                                             *)
(*                                                                         *)
(* Units.  Gas values are whole tenths (450.0 is 4500): the generator      *)
(* rounds every value to one decimal.  A Math.random() result is a whole   *)
(* number of tenths of [0, 1) (0.9 is 9).  volatility is in hundredths,    *)
(* a trend multiplier in thousandths, a correlation factor in hundredths.  *)
(* All arithmetic on them is exact (no rounding but the code's own).       *)
(***************************************************************************)
EXTENDS Integers, Sequences, FiniteSets, TLC

VARIABLES
  vehicleProfiles,  \* the module-level Map vehicleId -> VehicleProfile
  hist,             \* the generateHistoricalData call in progress, if any
  last,             \* the most recent call of the generator and what it returned
  calls,            \* how many operations this behaviour has invoked
  dbReadings,       \* rows of emission_readings, in insertion order
  dbAlerts,         \* rows of alerts, in insertion order
  req,              \* the most recent router request and its outcome
  dash,             \* the Dashboard page of one browser: its React state
  userSessions,     \* rows of user_sessions, in insertion order
  cookies,          \* each browser's cookies
  validTokens,      \* the access tokens Supabase Auth accepts, with their user
  ctx,              \* the context built for the most recent session request
  handlers,         \* the requests being served concurrently, each at an await
  returned,         \* per vehicle, the generator's calls since its last reset
  vehicles          \* the vehicles table as the vehicles router changes it

vars == <<vehicleProfiles, hist, last, calls, dbReadings, dbAlerts, req, handlers, returned, vehicles,
          dash, userSessions, cookies, validTokens, ctx>>

coreVars == <<vehicleProfiles, hist, last, calls>>
dbVars == <<dbReadings, dbAlerts, req>>
authVars == <<userSessions, cookies, validTokens, ctx>>
concVars == <<handlers, returned>>
fleetVars == <<vehicles>>
webVars == <<dash, authVars, concVars, fleetVars>>

-----------------------------------------------------------------------------
(* Bounds of the model *)

\* operations of the generator (generate, reset, generateHistory) that one
\* behaviour invokes
MaxCalls == 2

\* iterations the model follows of a generateHistoricalData loop that never ends
MaxData == 1

\* logins per behaviour
MaxLogins == 2
MaxVehicles == 2

\* the vehicle ids requests name
VehicleIds == {1, 2}

-----------------------------------------------------------------------------
(* JavaScript values: a number, NaN, undefined, null, +-Infinity *)

Num(n) == [t |-> "number", n |-> n]
NaN == [t |-> "NaN", n |-> 0]
Undefined == [t |-> "undefined", n |-> 0]
Null == [t |-> "null", n |-> 0]
PosInfinity == [t |-> "Infinity", n |-> 1]
NegInfinity == [t |-> "Infinity", n |-> 0 - 1]

IsNum(x) == x.t = "number"

\* x is falsy: 0, NaN, undefined, null
Falsy(x) == x.t \in {"NaN", "undefined", "null"} \/ (IsNum(x) /\ x.n = 0)

\* a || b
OrElse(a, b) == IF Falsy(a) THEN b ELSE a

\* a ?? b
Coalesce(a, b) == IF a.t \in {"undefined", "null"} THEN b ELSE a

-----------------------------------------------------------------------------
(* Strings are sequences of characters, so that toLowerCase is computed *)

UpperChars == <<"A","B","C","D","E","F","G","H","I","J","K","L","M",
                "N","O","P","Q","R","S","T","U","V","W","X","Y","Z">>
LowerChars == <<"a","b","c","d","e","f","g","h","i","j","k","l","m",
                "n","o","p","q","r","s","t","u","v","w","x","y","z">>

LowerChar(ch) ==
  IF \E k \in DOMAIN UpperChars : UpperChars[k] = ch
  THEN LowerChars[CHOOSE k \in DOMAIN UpperChars : UpperChars[k] = ch]
  ELSE ch

\* String.prototype.toLowerCase
toLowerCase(s) == [i \in DOMAIN s |-> LowerChar(s[i])]

-----------------------------------------------------------------------------
(* EMISSION_BASELINES, a plain object: its own keys, and the keys it *)
(* inherits from Object.prototype                                     *)

Gases == {"co2", "co", "nox", "pmLevel"}

Baseline(a, b, c, d) == [co2 |-> Num(a), co |-> Num(b), nox |-> Num(c), pmLevel |-> Num(d)]

PetrolKey == <<"p","e","t","r","o","l">>
DieselKey == <<"d","i","e","s","e","l">>
HybridKey == <<"h","y","b","r","i","d">>
ElectricKey == <<"e","l","e","c","t","r","i","c">>
CngKey == <<"c","n","g">>

OwnKeys == {PetrolKey, DieselKey, HybridKey, ElectricKey, CngKey}

EMISSION_BASELINES ==
  [k \in OwnKeys |->
     IF k = PetrolKey THEN Baseline(4500, 80, 350, 250)
     ELSE IF k = DieselKey THEN Baseline(5500, 120, 450, 400)
     ELSE IF k = HybridKey THEN Baseline(3000, 50, 200, 150)
     ELSE IF k = ElectricKey THEN Baseline(0, 0, 0, 50)
     ELSE Baseline(4000, 60, 250, 200)]

\* Properties every plain object inherits; only the all-lowercase ones can be
\* the result of toLowerCase.
ObjectPrototypeKeys ==
  { <<"c","o","n","s","t","r","u","c","t","o","r">>,
    <<"_","_","p","r","o","t","o","_","_">>,
    <<"t","o","S","t","r","i","n","g">>,
    <<"v","a","l","u","e","O","f">> }

\* What reading co2, co, nox, pmLevel of an inherited property (a function or
\* Object.prototype) gives, and what spreading it copies: nothing.
NoFields == [co2 |-> Undefined, co |-> Undefined, nox |-> Undefined, pmLevel |-> Undefined]

\* EMISSION_BASELINES[key] || EMISSION_BASELINES.petrol: an own key gives its
\* baseline, an inherited key a truthy object that is no baseline, any other
\* key undefined and so the petrol baseline.
LookupBaseline(key) ==
  IF key \in OwnKeys THEN EMISSION_BASELINES[key]
  ELSE IF key \in ObjectPrototypeKeys THEN NoFields
  ELSE EMISSION_BASELINES[PetrolKey]

-----------------------------------------------------------------------------
(* The profile store *)

NoProfile == [present |-> FALSE]

trends == <<"stable", "increasing", "decreasing", "volatile">>

\* trends[Math.floor(Math.random() * trends.length)]
PickTrend(r) == trends[((r * Len(trends)) \div 10) + 1]

\* 0.1 + Math.random() * 0.2, in hundredths
PickVolatility(r) == 10 + r * 2

\* faulty variant: a profile created without a lastReading
NewProfileWithoutReading(vehicleId, fuelType, cd) ==
  [present |-> TRUE,
   vehicleId |-> vehicleId,
   baseline |-> LookupBaseline(toLowerCase(fuelType)),
   lastReading |-> Undefined,
   trend |-> PickTrend(cd[1]),
   volatility |-> PickVolatility(cd[2])]

\* faulty variant: every new profile gets the petrol baseline
NewProfileOfPetrol(vehicleId, fuelType, cd) ==
  [present |-> TRUE,
   vehicleId |-> vehicleId,
   baseline |-> EMISSION_BASELINES[PetrolKey],
   lastReading |-> EMISSION_BASELINES[PetrolKey],
   trend |-> PickTrend(cd[1]),
   volatility |-> PickVolatility(cd[2])]

\* vehicleProfiles.set(vehicleId, { vehicleId, baseline,
\* lastReading: { ...baseline }, trend, volatility })
NewProfile(vehicleId, fuelType, cd) ==
  LET baseline == LookupBaseline(toLowerCase(fuelType))
  IN [present |-> TRUE,
      vehicleId |-> vehicleId,
      baseline |-> baseline,
      lastReading |-> baseline,
      trend |-> PickTrend(cd[1]),
      volatility |-> PickVolatility(cd[2])]

\* faulty variant: getVehicleProfile that looks the baseline up again on every call
getVehicleProfileRefreshing(store, vehicleId, fuelType, cd) ==
  IF ~store[vehicleId].present
  THEN [store EXCEPT ![vehicleId] = NewProfile(vehicleId, fuelType, cd)]
  ELSE [store EXCEPT ![vehicleId].baseline = LookupBaseline(toLowerCase(fuelType))]

\* getVehicleProfile: the store after the call; cd are the two Math.random()
\* results a creation consumes.
getVehicleProfile(store, vehicleId, fuelType, cd) ==
  IF ~store[vehicleId].present
  THEN [store EXCEPT ![vehicleId] = NewProfile(vehicleId, fuelType, cd)]
  ELSE store

\* faulty variant: resetVehicleProfile that deletes nothing
resetVehicleProfileKept(store, vehicleId) == store

\* faulty variant: resetVehicleProfile that deletes the first entry of the map
resetVehicleProfileFirst(store, vehicleId) == [store EXCEPT ![1] = NoProfile]

\* faulty variant: resetVehicleProfile as vehicleProfiles.clear()
resetAllProfiles(store, vehicleId) == [v \in DOMAIN store |-> NoProfile]

\* resetVehicleProfile: vehicleProfiles.delete(vehicleId)
resetVehicleProfile(store, vehicleId) ==
  [store EXCEPT ![vehicleId] = NoProfile]

-----------------------------------------------------------------------------
(* Exact arithmetic of generateValue *)

\* A non-negative rational x, as much of it as the code looks at: q is
\* Math.floor(x), half says x - q >= 1/2, exact says x = q.
Whole(n) == [q |-> n, half |-> FALSE, exact |-> TRUE]

\* m * a / 10^10 for 0 <= m, a < 10^8, by long multiplication in base 10^4
\* (the product does not fit a machine integer of the checker).
MulShift(m, a) ==
  LET mh == m \div 10000
      ml == m % 10000
      ah == a \div 10000
      al == a % 10000
      p0 == ml * al
      s1 == mh * al + ml * ah + (p0 \div 10000)
      h  == mh * ah + (s1 \div 10000)
  IN [q |-> h \div 100,
      half |-> (h % 100) >= 50,
      exact |-> (h % 100) = 0 /\ (s1 % 10000) = 0 /\ (p0 % 10000) = 0]

\* Math.min(x, n) and Math.max(n, x) for a whole n
MathMin(x, n) == IF x.q > n \/ (x.q = n /\ ~x.exact) THEN Whole(n) ELSE x
MathMax(n, x) == IF x.q < n THEN Whole(n) ELSE x

\* Math.round(x): the nearest whole number, a half rounded up
MathRound(x) == IF x.half THEN x.q + 1 ELSE x.q

\* faulty variant: the clamp without its upper bounds
ClampFromBelow(baseValue, newValue) ==
  IF baseValue = 0
  THEN MathMax(0, newValue)
  ELSE MathMax((baseValue * 2) \div 10, newValue)

\* faulty variant: the clamp with thrice the baseline as its upper bound
ClampToTriple(baseValue, newValue) ==
  IF baseValue = 0
  THEN MathMax(0, MathMin(newValue, 100))
  ELSE MathMax((baseValue * 2) \div 10, MathMin(newValue, baseValue * 3))

\* The clamp of generateValue, on a value in tenths: [0, 10] for a zero
\* baseline, else [baseValue * 0.2, baseValue * 2].  Every baseline of
\* EMISSION_BASELINES times 0.2 is a whole number of tenths.
Clamp(baseValue, newValue) ==
  IF baseValue = 0
  THEN MathMax(0, MathMin(newValue, 100))
  ELSE MathMax((baseValue * 2) \div 10, MathMin(newValue, baseValue * 2))

\* faulty variant: the walk steps from the reference plus one, so that 0 is
\* left
generateValueOffZero(baseValue, lastValue, minVariation, maxVariation, volatility, trendMultiplier, r) ==
  LET reference == Coalesce(lastValue, baseValue)
  IN IF ~IsNum(baseValue) \/ ~IsNum(reference)
     THEN NaN
     ELSE
       LET variation == 10 * minVariation + r * (maxVariation - minVariation)
           newValue == MulShift((reference.n + 10) * trendMultiplier,
                                10000000 + volatility * variation)
       IN Num(MathRound(Clamp(baseValue.n, newValue)))

\* generateValue(baseValue, lastValue, minVariation, maxVariation), with the
\* volatility and trendMultiplier it closes over and its Math.random() result
\* r.  minVariation and maxVariation are in 1/10000.
generateValue(baseValue, lastValue, minVariation, maxVariation, volatility, trendMultiplier, r) ==
  LET reference == Coalesce(lastValue, baseValue)
  IN IF ~IsNum(baseValue) \/ ~IsNum(reference)
     THEN NaN   \* arithmetic on undefined or NaN; Math.max and Math.min keep NaN
     ELSE
       LET \* minVariation + Math.random() * (maxVariation - minVariation), in 1/100000
           variation == 10 * minVariation + r * (maxVariation - minVariation)
           \* newValue = reference + reference * volatility * variation, then
           \* newValue *= trendMultiplier
           newValue == MulShift(reference.n * trendMultiplier,
                                10000000 + volatility * variation)
       IN Num(MathRound(Clamp(baseValue.n, newValue)))

\* faulty variant: the multiplier of a volatile trend for every trend
TrendMultiplierVolatile(trend, r) == 850 + r * 30

\* The trend multiplier, in thousandths
TrendMultiplier(trend, r) ==
  CASE trend = "increasing" -> 1000 + r * 5
    [] trend = "decreasing" -> 1000 - r * 5
    [] trend = "volatile" -> 850 + r * 30
    [] OTHER -> 950 + r * 10

\* 0.7 + Math.random() * 0.3, in hundredths
CorrelationFactor(r) == 70 + r * 3

\* The half-width of each gas's variation, in hundredths (0.2, 0.25, 0.2, 0.3)
VariationWidth == [co2 |-> 20, co |-> 25, nox |-> 20, pmLevel |-> 30]

\* lastReading?.co2: undefined when lastReading is
OptionalField(obj, g) == IF obj = Undefined THEN Undefined ELSE obj[g]

\* faulty variant: every gas generated from the baseline, never from lastReading
NewReadingFromBaseline(profile, d) ==
  LET trendMultiplier == TrendMultiplier(profile.trend, d.t)
      correlationFactor == CorrelationFactor(d.c)
  IN [g \in Gases |->
        generateValue(profile.baseline[g], Undefined,
                      0 - VariationWidth[g] * correlationFactor,
                      VariationWidth[g] * correlationFactor,
                      profile.volatility, trendMultiplier, d.v[g])]

\* The reading generateMockEmissionReading computes from a profile; d holds the
\* call's six Math.random() results: d.t for the trend multiplier, d.c for the
\* correlation factor, d.v[g] for gas g.
NewReading(profile, d) ==
  LET trendMultiplier == TrendMultiplier(profile.trend, d.t)
      correlationFactor == CorrelationFactor(d.c)
  IN [g \in Gases |->
        generateValue(profile.baseline[g], OptionalField(profile.lastReading, g),
                      0 - VariationWidth[g] * correlationFactor,
                      VariationWidth[g] * correlationFactor,
                      profile.volatility, trendMultiplier, d.v[g])]

\* faulty variant: generateMockEmissionReading without "profile.lastReading ="
generateMockEmissionReadingUnstored(store, vehicleId, fuelType, cd, d) ==
  LET got == getVehicleProfile(store, vehicleId, fuelType, cd)
      profile == got[vehicleId]
  IN [store |-> got,
      reading |-> NewReading(profile, d),
      created |-> ~store[vehicleId].present,
      reference |-> profile.lastReading,
      baseline |-> profile.baseline,
      trendMultiplier |-> TrendMultiplier(profile.trend, d.t)]

\* faulty variant: the update of an existing profile's lastReading is lost
generateMockEmissionReadingLost(store, vehicleId, fuelType, cd, d) ==
  LET got == getVehicleProfile(store, vehicleId, fuelType, cd)
      profile == got[vehicleId]
      reading == NewReading(profile, d)
  IN [store |-> IF store[vehicleId].present THEN got
                ELSE [got EXCEPT ![vehicleId].lastReading = reading],
      reading |-> reading,
      created |-> ~store[vehicleId].present,
      reference |-> profile.lastReading,
      baseline |-> profile.baseline,
      trendMultiplier |-> TrendMultiplier(profile.trend, d.t)]

\* generateMockEmissionReading(vehicleId, fuelType): the store after the call,
\* the reading returned, and what the call read.
generateMockEmissionReading(store, vehicleId, fuelType, cd, d) ==
  LET got == getVehicleProfile(store, vehicleId, fuelType, cd)
      profile == got[vehicleId]
      reading == NewReading(profile, d)
  IN [store |-> [got EXCEPT ![vehicleId].lastReading = reading],
      reading |-> reading,
      created |-> ~store[vehicleId].present,
      reference |-> profile.lastReading,
      baseline |-> profile.baseline,
      trendMultiplier |-> TrendMultiplier(profile.trend, d.t)]

-----------------------------------------------------------------------------
(* generateHistoricalData *)

\* Math.floor(a / b) of two whole numbers, as JavaScript divides: by zero it
\* is Infinity, -Infinity or (0 / 0) NaN.
FloorDiv(a, b) ==
  IF b = 0
  THEN (IF a > 0 THEN PosInfinity ELSE IF a < 0 THEN NegInfinity ELSE NaN)
  ELSE IF b > 0 THEN Num(a \div b) ELSE Num((0 - a) \div (0 - b))

\* const points = Math.floor((hoursBack * 60) / intervalMinutes)
Points(hoursBack, intervalMinutes) == FloorDiv(hoursBack * 60, intervalMinutes)

\* faulty variant: the loop condition as i < points
LoopContinuesBefore(i, points) ==
  IF IsNum(points) THEN i < points.n ELSE points = PosInfinity

\* the loop condition i <= points: false against NaN and -Infinity, true
\* against Infinity
LoopContinues(i, points) ==
  IF IsNum(points) THEN i <= points.n ELSE points = PosInfinity

NoHistory == [active |-> FALSE]

-----------------------------------------------------------------------------
(* The inputs the model draws *)

\* fuelType strings: a known name in mixed case and in upper case, an unknown
\* name, and a name of a property every object inherits
Diesel == <<"D","i","e","s","e","l">>
ELECTRIC == <<"E","L","E","C","T","R","I","C">>
Lpg == <<"l","p","g">>
Constructor == <<"C","o","n","s","t","r","u","c","t","o","r">>

FuelTypes == {Diesel, ELECTRIC, Lpg, Constructor}

\* the (vehicleId, fuelType) pairs the generator is called with
Requests == { <<1, Diesel>>, <<1, ELECTRIC>>, <<1, Constructor>>, <<2, Lpg>> }

\* the (vehicleId, fuelType) pairs generateHistoricalData is called with
HistoryRequests == { <<1, Diesel>>, <<2, Lpg>> }

\* the two Math.random() results of a profile's creation (trend, volatility)
CreateSamples == { <<0, 0>>, <<3, 9>>, <<6, 3>>, <<9, 9>> }

\* the two Math.random() results of the creation generateHistoricalData
\* starts with: the lowest and the highest
HistoryCreateSamples == { <<0, 0>>, <<9, 9>> }

\* the creation draws a call for vehicleId can consume: none when the profile
\* exists
CreateDraws(store, vehicleId) ==
  IF store[vehicleId].present THEN { <<0, 0>> } ELSE CreateSamples

\* the six Math.random() results of one generator call
DrawSamples ==
  { [t |-> 0, c |-> 9, v |-> [g \in Gases |-> 0]],
    [t |-> 9, c |-> 9, v |-> [g \in Gases |-> 9]],
    [t |-> 3, c |-> 0, v |-> [co2 |-> 0, co |-> 9, nox |-> 3, pmLevel |-> 6]] }

\* (hoursBack, intervalMinutes) of a generateHistoricalData call: any two
\* numbers pass the endpoint's z.number()
HistoryArgs ==
  { <<1, 60>>, <<0, 5>>, <<1, 0>>, <<0, 0>>, <<0 - 1, 30>> }

-----------------------------------------------------------------------------
(* The generator's operations, called directly *)

NoCall ==
  [op |-> "none", vehicleId |-> 0, fuelType |-> <<>>, created |-> FALSE,
   reference |-> NoFields, baseline |-> NoFields, readings |-> <<>>,
   hoursBack |-> 0, intervalMinutes |-> 0, trendMultiplier |-> 0]

\* generateMockEmissionReading(vehicleId, fuelType)
Generate(vehicleId, fuelType) ==
  /\ ~hist.active
  /\ calls < MaxCalls
  /\ \E cd \in CreateDraws(vehicleProfiles, vehicleId), d \in DrawSamples :
       LET r == generateMockEmissionReading(vehicleProfiles, vehicleId, fuelType, cd, d)
       IN /\ vehicleProfiles' = r.store
          /\ last' = [NoCall EXCEPT !.op = "generate", !.vehicleId = vehicleId,
                        !.fuelType = fuelType, !.created = r.created,
                        !.reference = r.reference, !.baseline = r.baseline,
                        !.readings = <<r.reading>>,
                        !.trendMultiplier = r.trendMultiplier]
  /\ calls' = calls + 1
  /\ UNCHANGED <<hist, dbVars, webVars>>

\* resetVehicleProfile(vehicleId)
Reset(vehicleId) ==
  /\ ~hist.active
  /\ calls < MaxCalls
  /\ vehicleProfiles' = resetVehicleProfile(vehicleProfiles, vehicleId)
  /\ last' = [NoCall EXCEPT !.op = "reset", !.vehicleId = vehicleId]
  /\ calls' = calls + 1
  /\ UNCHANGED <<hist, dbVars, webVars>>

\* faulty variant: generateHistoricalData without its resetVehicleProfile
HistoryStoreKept(store, vehicleId, fuelType, cd) ==
  getVehicleProfile(store, vehicleId, fuelType, cd)

\* The store generateHistoricalData's loop starts from: the profile reset, then
\* fetched (and so created anew).
HistoryStore(store, vehicleId, fuelType, cd) ==
  getVehicleProfile(resetVehicleProfile(store, vehicleId), vehicleId, fuelType, cd)

\* generateHistoricalData up to its loop: the call in progress
BeginHistory(store, vehicleId, fuelType, hoursBack, intervalMinutes) ==
  [active |-> TRUE, vehicleId |-> vehicleId, fuelType |-> fuelType,
   hoursBack |-> hoursBack, intervalMinutes |-> intervalMinutes,
   points |-> Points(hoursBack, intervalMinutes), i |-> 0, data |-> <<>>,
   discarded |-> store[vehicleId]]

BeginCall(vehicleId, fuelType, hoursBack, intervalMinutes) ==
  [NoCall EXCEPT !.op = "generateHistory.begin", !.vehicleId = vehicleId,
     !.fuelType = fuelType, !.hoursBack = hoursBack,
     !.intervalMinutes = intervalMinutes, !.created = TRUE]

\* generateHistoricalData(vehicleId, fuelType, hoursBack, intervalMinutes), up
\* to its loop
HistoryBegin(vehicleId, fuelType, args) ==
  /\ ~hist.active
  /\ calls < MaxCalls
  /\ \E cd \in HistoryCreateSamples :
       vehicleProfiles' = HistoryStore(vehicleProfiles, vehicleId, fuelType, cd)
  /\ hist' = BeginHistory(vehicleProfiles, vehicleId, fuelType, args[1], args[2])
  /\ last' = BeginCall(vehicleId, fuelType, args[1], args[2])
  /\ calls' = calls + 1
  /\ UNCHANGED <<dbVars, webVars>>

\* one iteration of the loop: a generator call, its reading pushed on data
HistoryStep ==
  /\ hist.active
  /\ LoopContinues(hist.i, hist.points)
  /\ IsNum(hist.points) \/ hist.i < MaxData
  /\ \E cd \in CreateDraws(vehicleProfiles, hist.vehicleId), d \in DrawSamples :
       LET r == generateMockEmissionReading(vehicleProfiles, hist.vehicleId,
                                            hist.fuelType, cd, d)
       IN /\ vehicleProfiles' = r.store
          /\ hist' = [hist EXCEPT !.i = @ + 1, !.data = Append(@, r.reading)]
          /\ last' = [NoCall EXCEPT !.op = "generateHistory.step",
                        !.vehicleId = hist.vehicleId, !.fuelType = hist.fuelType,
                        !.created = r.created, !.reference = r.reference,
                        !.baseline = r.baseline, !.readings = <<r.reading>>,
                        !.trendMultiplier = r.trendMultiplier,
                        !.hoursBack = hist.hoursBack,
                        !.intervalMinutes = hist.intervalMinutes]
  /\ UNCHANGED <<calls, dbVars, webVars>>

\* the loop has ended: return data
HistoryReturn ==
  /\ hist.active
  /\ ~LoopContinues(hist.i, hist.points)
  /\ hist' = NoHistory
  /\ last' = [NoCall EXCEPT !.op = "generateHistory", !.vehicleId = hist.vehicleId,
                !.fuelType = hist.fuelType, !.readings = hist.data,
                !.hoursBack = hist.hoursBack,
                !.intervalMinutes = hist.intervalMinutes]
  /\ UNCHANGED <<vehicleProfiles, calls, dbVars, webVars>>

NoRequest == [endpoint |-> "none", status |-> "none"]

\* the browsers
Clients == {"a", "b"}

\* Dashboard before anything is selected, fetched or clicked:
\* useState<number | null>(null), the alerts query without data
NoDownload == [outcome |-> "none"]
NoData == [loaded |-> FALSE]
NoDashboard == [selectedVehicleId |-> Null, alertsData |-> NoData, download |-> NoDownload]

\* a browser without the sb-access-token and sb-session-token cookies; the
\* tokens issued are numbered from 1
NoCookies == [accessToken |-> 0, sessionToken |-> 0]
NoContext == [endpoint |-> "none"]

\* the vehicles table before any vehicle is registered: no row, and the last
\* value its serial id has given out
NoFleet == [rows |-> <<>>, serial |-> 0]

\* the handlers the event loop can have in flight at once
Handlers == {1, 2}
NoHandler ==
  [endpoint |-> "none", pc |-> "idle", status |-> "none", vehicleId |-> 0,
   hoursBack |-> 0, intervalMinutes |-> 0, data |-> <<>>, k |-> 0, g |-> 0]

\* the web side before any page is opened or any user has logged in
WebInit ==
  /\ dash = NoDashboard
  /\ userSessions = <<>>
  /\ cookies = [c \in Clients |-> NoCookies]
  /\ validTokens = {}
  /\ ctx = NoContext
  /\ handlers = [p \in Handlers |-> NoHandler]
  /\ returned = [v \in VehicleIds |-> <<>>]
  /\ vehicles = NoFleet

Init ==
  /\ vehicleProfiles = [v \in VehicleIds |-> NoProfile]
  /\ hist = NoHistory
  /\ last = NoCall
  /\ calls = 0
  /\ dbReadings = <<>>
  /\ dbAlerts = <<>>
  /\ req = NoRequest
  /\ WebInit

Next ==
  \/ \E rq \in Requests : Generate(rq[1], rq[2])
  \/ \E v \in VehicleIds : Reset(v)
  \/ \E rq \in HistoryRequests, a \in HistoryArgs : HistoryBegin(rq[1], rq[2], a)
  \/ HistoryStep
  \/ HistoryReturn

Spec == Init /\ [][Next]_vars

-----------------------------------------------------------------------------
(* The store behind the router: the vehicles table, createEmissionReading, *)
(* createAlert                                                              *)

\* the rows of the vehicles table, as getAllVehicles returns them
VehicleRows ==
  << [id |-> 1, fuelType |-> Diesel, deviceId |-> "dev-1"],
     [id |-> 2, fuelType |-> ELECTRIC, deviceId |-> "dev-2"] >>

NoVehicle == [id |-> 0, fuelType |-> <<>>, deviceId |-> ""]

\* faulty variant: the first vehicle for an id no vehicle has
getVehicleByIdOrFirst(vehicleId) ==
  IF \E k \in DOMAIN VehicleRows : VehicleRows[k].id = vehicleId
  THEN VehicleRows[CHOOSE k \in DOMAIN VehicleRows : VehicleRows[k].id = vehicleId]
  ELSE VehicleRows[1]

\* getVehicleById, getVehicleByDeviceId: the row, or undefined
getVehicleById(vehicleId) ==
  IF \E k \in DOMAIN VehicleRows : VehicleRows[k].id = vehicleId
  THEN VehicleRows[CHOOSE k \in DOMAIN VehicleRows : VehicleRows[k].id = vehicleId]
  ELSE NoVehicle

\* faulty variant: the first vehicle for a deviceId no vehicle has
getVehicleByDeviceIdOrFirst(deviceId) ==
  IF \E k \in DOMAIN VehicleRows : VehicleRows[k].deviceId = deviceId
  THEN VehicleRows[CHOOSE k \in DOMAIN VehicleRows : VehicleRows[k].deviceId = deviceId]
  ELSE VehicleRows[1]

getVehicleByDeviceId(deviceId) ==
  IF \E k \in DOMAIN VehicleRows : VehicleRows[k].deviceId = deviceId
  THEN VehicleRows[CHOOSE k \in DOMAIN VehicleRows : VehicleRows[k].deviceId = deviceId]
  ELSE NoVehicle

\* The store's clock, in minutes, when request number n + 1 of a behaviour is
\* served: the requests arrive a quarter of an hour apart, and one request's
\* writes fall within the same minute.
StoreClock(n) == 1440 + 15 * n

\* The state a handler works on: the profile store, the two tables, and of
\* this request the readings it handed to the store (items), the rows it
\* inserted, the store writes it has issued and whether one has thrown.
\* failAt numbers the write of the request that the store fails (0: none).
StartOf(store, readings, alerts, lastCall) ==
  [store |-> store, dbReadings |-> readings, dbAlerts |-> alerts, last |-> lastCall,
   now |-> StoreClock(calls),
   items |-> <<>>, persisted |-> <<>>, alerts |-> <<>>, writes |-> 0, failed |-> FALSE]

\* faulty variant: createEmissionReading returning normally on a store error
createEmissionReadingQuiet(ex, vehicleId, values, failAt) ==
  LET row == [vehicle_id |-> vehicleId,
              timestamp |-> ex.now,
              co2 |-> OrElse(values.co2, Null),
              co |-> OrElse(values.co, Null),
              nox |-> OrElse(values.nox, Null),
              pm_level |-> OrElse(values.pmLevel, Null)]
      issued == [ex EXCEPT !.writes = @ + 1,
                           !.items = Append(@, [vehicleId |-> vehicleId, values |-> values])]
  IN IF ex.failed THEN ex
     ELSE IF issued.writes = failAt THEN issued
     ELSE [issued EXCEPT !.dbReadings = Append(@, row), !.persisted = Append(@, row)]

\* createEmissionReading: insert the row, a falsy value as null, no timestamp
\* given (the column's default is now()); throw on a store error
createEmissionReading(ex, vehicleId, values, failAt) ==
  LET row == [vehicle_id |-> vehicleId,
              timestamp |-> ex.now,
              co2 |-> OrElse(values.co2, Null),
              co |-> OrElse(values.co, Null),
              nox |-> OrElse(values.nox, Null),
              pm_level |-> OrElse(values.pmLevel, Null)]
      issued == [ex EXCEPT !.writes = @ + 1,
                           !.items = Append(@, [vehicleId |-> vehicleId, values |-> values])]
  IN IF ex.failed THEN ex
     ELSE IF issued.writes = failAt THEN [issued EXCEPT !.failed = TRUE]
     ELSE [issued EXCEPT !.dbReadings = Append(@, row), !.persisted = Append(@, row)]

\* createAlert: insert the row, active; throw on a store error
createAlert(ex, vehicleId, gasType, measuredValue, thresholdValue, failAt) ==
  LET row == [vehicle_id |-> vehicleId, gas_type |-> gasType,
              measured_value |-> measuredValue, threshold_value |-> thresholdValue,
              is_active |-> TRUE]
      issued == [ex EXCEPT !.writes = @ + 1]
  IN IF ex.failed THEN ex
     ELSE IF issued.writes = failAt THEN [issued EXCEPT !.failed = TRUE]
     ELSE [issued EXCEPT !.dbAlerts = Append(@, row), !.alerts = Append(@, row)]

-----------------------------------------------------------------------------
(* The threshold checks of the emissions endpoints *)

\* const thresholds = { co2: 1000, co: 50, nox: 100, pmLevel: 100 }, in tenths
thresholds == [co2 |-> 10000, co |-> 500, nox |-> 1000, pmLevel |-> 1000]

GasOrder == <<"co2", "co", "nox", "pmLevel">>
GasType == [co2 |-> "CO2", co |-> "CO", nox |-> "NOx", pmLevel |-> "PM"]

\* x > n in JavaScript for a number n: false for NaN and undefined
GreaterThan(x, n) == IsNum(x) /\ x.n > n

\* faulty variant: the ingest test with >= for >
IngestAlertDueFrom(values, g) == ~Falsy(values[g]) /\ IsNum(values[g]) /\ values[g].n >= thresholds[g]

\* ingest: input.co2 && input.co2 > thresholds.co2
IngestAlertDue(values, g) == ~Falsy(values[g]) /\ GreaterThan(values[g], thresholds[g])

\* generateMock: mockData.co2 > thresholds.co2
MockAlertDue(values, g) == GreaterThan(values[g], thresholds[g])

\* the four threshold checks, in the order of the code, from gas number k on
RECURSIVE CheckThresholds(_, _, _, _, _, _)
CheckThresholds(ex, kind, vehicleId, values, failAt, k) ==
  IF k > Len(GasOrder) THEN ex
  ELSE LET g == GasOrder[k]
           due == IF kind = "ingest" THEN IngestAlertDue(values, g)
                  ELSE MockAlertDue(values, g)
           next == IF due
                   THEN createAlert(ex, vehicleId, GasType[g], values[g], Num(thresholds[g]), failAt)
                   ELSE ex
       IN CheckThresholds(next, kind, vehicleId, values, failAt, k + 1)

-----------------------------------------------------------------------------
(* The inputs of the endpoints *)

\* ingest: each gas is optional; values at, below and above the thresholds
IngestInputs ==
  << [co2 |-> Undefined, co |-> Undefined, nox |-> Undefined, pmLevel |-> Undefined],
     [co2 |-> Num(15000), co |-> Num(0), nox |-> Undefined, pmLevel |-> Num(999)],
     [co2 |-> Num(10000), co |-> Num(501), nox |-> Num(1000), pmLevel |-> Undefined],
     [co2 |-> Num(4500), co |-> Undefined, nox |-> Num(1500), pmLevel |-> Num(2500)] >>

\* failAt: which store write of a request fails (0: none)
IngestRequests ==
  { [deviceId |-> "dev-1", input |-> IngestInputs[k], failAt |-> 0] : k \in 1 .. 4 }
    \cup { [deviceId |-> "dev-1", input |-> IngestInputs[3], failAt |-> 1],
           [deviceId |-> "dev-1", input |-> IngestInputs[4], failAt |-> 2],
           [deviceId |-> "dev-9", input |-> IngestInputs[2], failAt |-> 0] }

\* generateMock: vehicleId (optional) and generateForAll
MockRequests ==
  { [vehicleId |-> Num(1), generateForAll |-> FALSE, failAt |-> 0],
    [vehicleId |-> Num(1), generateForAll |-> FALSE, failAt |-> 2],
    [vehicleId |-> Num(2), generateForAll |-> FALSE, failAt |-> 0],
    [vehicleId |-> Num(9), generateForAll |-> FALSE, failAt |-> 0],
    [vehicleId |-> Num(0), generateForAll |-> FALSE, failAt |-> 0],
    [vehicleId |-> Undefined, generateForAll |-> FALSE, failAt |-> 0],
    [vehicleId |-> Undefined, generateForAll |-> TRUE, failAt |-> 0],
    [vehicleId |-> Num(2), generateForAll |-> TRUE, failAt |-> 1] }

\* populateHistory: vehicleId (optional), hoursBack, intervalMinutes
PopulateRequests ==
  { [vehicleId |-> Num(1), hoursBack |-> 1, intervalMinutes |-> 20, failAt |-> 0],
    [vehicleId |-> Num(1), hoursBack |-> 1, intervalMinutes |-> 20, failAt |-> 2],
    [vehicleId |-> Num(2), hoursBack |-> 1, intervalMinutes |-> 0, failAt |-> 0],
    [vehicleId |-> Num(9), hoursBack |-> 0, intervalMinutes |-> 5, failAt |-> 0],
    [vehicleId |-> Undefined, hoursBack |-> 1, intervalMinutes |-> 20, failAt |-> 0],
    [vehicleId |-> Undefined, hoursBack |-> 0, intervalMinutes |-> 5, failAt |-> 2],
    [vehicleId |-> Num(0), hoursBack |-> 0 - 1, intervalMinutes |-> 30, failAt |-> 0] }

\* the Math.random() results of a profile's creation behind an endpoint
ApiCreateSamples == { <<0, 0>>, <<9, 9>> }

\* the Math.random() results, in hundredths, of populateHistory's
\* "Math.random() > 0.9", one per reading
SamplingDraws == { <<50, 50, 50, 50>>, <<95, 95, 95, 95>> }

-----------------------------------------------------------------------------
(* emissions.ingest *)

Finished(ex, endpoint, input) ==
  [endpoint |-> endpoint, input |-> input,
   status |-> IF ex.failed THEN "error" ELSE "ok",
   error |-> IF ex.failed THEN "store error" ELSE "",
   now |-> ex.now,
   items |-> ex.items, persisted |-> ex.persisted, alerts |-> ex.alerts]

Refused(endpoint, input, message) ==
  [endpoint |-> endpoint, input |-> input, status |-> "error", error |-> message,
   items |-> <<>>, persisted |-> <<>>, alerts |-> <<>>]

Idle == req.status # "running" /\ ~hist.active

Ingest(deviceId, input, failAt) ==
  LET vehicle == getVehicleByDeviceId(deviceId)
      \* co2: input.co2 || null, ...
      values == [g \in Gases |-> OrElse(input[g], Null)]
      ex0 == StartOf(vehicleProfiles, dbReadings, dbAlerts, last)
      ex1 == createEmissionReading(ex0, vehicle.id, values, failAt)
      ex2 == CheckThresholds(ex1, "ingest", vehicle.id, input, failAt, 1)
      \* the request's whole input: deviceId and the four optional values
      whole == [deviceId |-> deviceId, co2 |-> input.co2, co |-> input.co,
                nox |-> input.nox, pmLevel |-> input.pmLevel]
  IN /\ Idle
     /\ calls < MaxCalls
     /\ calls' = calls + 1
     /\ UNCHANGED webVars
     /\ IF vehicle = NoVehicle
        THEN /\ req' = Refused("ingest", whole, "Vehicle not found")
             /\ UNCHANGED <<dbReadings, dbAlerts>>
        ELSE /\ req' = Finished(ex2, "ingest", whole)
             /\ dbReadings' = ex2.dbReadings
             /\ dbAlerts' = ex2.dbAlerts
     /\ UNCHANGED <<vehicleProfiles, hist, last>>

-----------------------------------------------------------------------------
(* emissions.generateMock *)

\* the body both branches run for one vehicle: generate, persist, check
MockFor(ex, vehicle, cd, d, failAt) ==
  IF ex.failed THEN ex
  ELSE LET r == generateMockEmissionReading(ex.store, vehicle.id, vehicle.fuelType, cd, d)
           ex1 == [ex EXCEPT !.store = r.store,
                             !.last = [NoCall EXCEPT !.op = "generate",
                                         !.vehicleId = vehicle.id,
                                         !.fuelType = vehicle.fuelType,
                                         !.created = r.created,
                                         !.reference = r.reference,
                                         !.baseline = r.baseline,
                                         !.readings = <<r.reading>>,
                                         !.trendMultiplier = r.trendMultiplier]]
           ex2 == createEmissionReading(ex1, vehicle.id, r.reading, failAt)
       IN CheckThresholds(ex2, "generateMock", vehicle.id, r.reading, failAt, 1)

\* for (const vehicle of vehicles), from row number k on; cds and ds give each
\* vehicle's Math.random() results
RECURSIVE MockForAll(_, _, _, _, _)
MockForAll(ex, cds, ds, failAt, k) ==
  IF k > Len(VehicleRows) THEN ex
  ELSE MockForAll(MockFor(ex, VehicleRows[k], cds[k], ds[k], failAt), cds, ds, failAt, k + 1)

Commit(ex, endpoint, input) ==
  /\ req' = Finished(ex, endpoint, input)
  /\ vehicleProfiles' = ex.store
  /\ last' = ex.last
  /\ dbReadings' = ex.dbReadings
  /\ dbAlerts' = ex.dbAlerts

GenerateMock(input, failAt) ==
  LET ex0 == StartOf(vehicleProfiles, dbReadings, dbAlerts, last)
  IN /\ Idle
     /\ calls < MaxCalls
     /\ calls' = calls + 1
     /\ UNCHANGED webVars
     /\ UNCHANGED hist
     /\ IF input.generateForAll
        THEN \E cd \in ApiCreateSamples, d \in DrawSamples :
               Commit(MockForAll(ex0, [k \in DOMAIN VehicleRows |-> cd],
                                 [k \in DOMAIN VehicleRows |-> d], failAt, 1),
                      "generateMock", input)
        ELSE IF ~Falsy(input.vehicleId)
        THEN LET vehicle == getVehicleById(input.vehicleId.n)
             IN IF vehicle = NoVehicle
                THEN /\ req' = Refused("generateMock", input, "Vehicle not found")
                     /\ UNCHANGED <<vehicleProfiles, last, dbReadings, dbAlerts>>
                ELSE \E cd \in CreateDraws(vehicleProfiles, vehicle.id), d \in DrawSamples :
                       Commit(MockFor(ex0, vehicle, cd, d, failAt), "generateMock", input)
        ELSE /\ req' = Refused("generateMock", input,
                               "Either vehicleId or generateForAll must be provided")
             /\ UNCHANGED <<vehicleProfiles, last, dbReadings, dbAlerts>>

-----------------------------------------------------------------------------
(* emissions.populateHistory *)

\* generateHistoricalData's loop from iteration i on, every generator call of
\* it drawing d
RECURSIVE HistoryLoop(_, _, _, _, _, _, _)
HistoryLoop(store, vehicleId, fuelType, points, d, i, data) ==
  IF ~LoopContinues(i, points) THEN [store |-> store, data |-> data]
  ELSE LET r == generateMockEmissionReading(store, vehicleId, fuelType, <<0, 0>>, d)
       IN HistoryLoop(r.store, vehicleId, fuelType, points, d, i + 1,
                      Append(data, r.reading))

\* generateHistoricalData for a loop that ends
generateHistoricalData(store, vehicleId, fuelType, hoursBack, intervalMinutes, cd, d) ==
  HistoryLoop(HistoryStore(store, vehicleId, fuelType, cd), vehicleId, fuelType,
              Points(hoursBack, intervalMinutes), d, 0, <<>>)

\* for (const data of historicalData), from reading number k on: persist it
\* and, for a single vehicle, check co2 for the readings the sampling picks
RECURSIVE PersistHistory(_, _, _, _, _, _, _)
PersistHistory(ex, one, vehicleId, data, sampling, failAt, k) ==
  IF k > Len(data) THEN ex
  ELSE LET ex1 == createEmissionReading(ex, vehicleId, data[k], failAt)
           ex2 == IF one /\ sampling[k] > 90 /\ MockAlertDue(data[k], "co2")
                  THEN createAlert(ex1, vehicleId, GasType.co2, data[k].co2,
                                   Num(thresholds.co2), failAt)
                  ELSE ex1
       IN PersistHistory(ex2, one, vehicleId, data, sampling, failAt, k + 1)

\* the body both branches run for one vehicle: generate its history, persist it
PopulateFor(ex, one, vehicle, input, cd, d, sampling, failAt) ==
  IF ex.failed THEN ex
  ELSE LET h == generateHistoricalData(ex.store, vehicle.id, vehicle.fuelType,
                                       input.hoursBack, input.intervalMinutes, cd, d)
           ex1 == [ex EXCEPT !.store = h.store,
                             !.last = [NoCall EXCEPT !.op = "generateHistory",
                                         !.vehicleId = vehicle.id,
                                         !.fuelType = vehicle.fuelType,
                                         !.readings = h.data,
                                         !.hoursBack = input.hoursBack,
                                         !.intervalMinutes = input.intervalMinutes]]
       IN PersistHistory(ex1, one, vehicle.id, h.data, sampling, failAt, 1)

\* for (const vehicle of vehicles), from row number k of queue on
RECURSIVE PopulateAll(_, _, _, _, _, _, _, _, _)
PopulateAll(ex, one, queue, input, cd, d, sampling, failAt, k) ==
  IF k > Len(queue) THEN ex
  ELSE PopulateAll(PopulateFor(ex, one, queue[k], input, cd, d, sampling, failAt),
                   one, queue, input, cd, d, sampling, failAt, k + 1)

\* the request whose handler is inside a loop that does not end
Running(endpoint, input) ==
  [endpoint |-> endpoint, input |-> input, status |-> "running", error |-> "",
   items |-> <<>>, persisted |-> <<>>, alerts |-> <<>>]

PopulateHistory(input, failAt) ==
  LET one == ~Falsy(input.vehicleId)
      vehicle == IF one THEN getVehicleById(input.vehicleId.n) ELSE NoVehicle
      queue == IF one THEN <<vehicle>> ELSE VehicleRows
      ex0 == StartOf(vehicleProfiles, dbReadings, dbAlerts, last)
  IN /\ Idle
     /\ calls < MaxCalls
     /\ calls' = calls + 1
     /\ UNCHANGED webVars
     /\ IF one /\ vehicle = NoVehicle
        THEN /\ req' = Refused("populateHistory", input, "Vehicle not found")
             /\ UNCHANGED <<vehicleProfiles, hist, last, dbReadings, dbAlerts>>
        ELSE IF Points(input.hoursBack, input.intervalMinutes) = PosInfinity
        THEN \* the first generateHistoricalData call does not return
             /\ req' = Running("populateHistory", input)
             /\ \E cd \in ApiCreateSamples :
                  vehicleProfiles' = HistoryStore(vehicleProfiles, queue[1].id,
                                                  queue[1].fuelType, cd)
             /\ hist' = BeginHistory(vehicleProfiles, queue[1].id, queue[1].fuelType,
                                     input.hoursBack, input.intervalMinutes)
             /\ last' = BeginCall(queue[1].id, queue[1].fuelType,
                                  input.hoursBack, input.intervalMinutes)
             /\ UNCHANGED <<dbReadings, dbAlerts>>
        ELSE /\ \E cd \in ApiCreateSamples, d \in DrawSamples, sampling \in SamplingDraws :
                  Commit(PopulateAll(ex0, one, queue, input, cd, d, sampling, failAt, 1),
                         "populateHistory", input)
             /\ UNCHANGED hist

\* The running server: vehicle 1 (diesel) has no profile yet, or one whose walk
\* has reached the top of its range.
InitApi ==
  /\ vehicleProfiles \in
       { [v \in VehicleIds |-> NoProfile],
         [v \in VehicleIds |->
            IF v = 1
            THEN [NewProfile(1, Diesel, <<9, 9>>) EXCEPT
                    !.lastReading = [g \in Gases |-> Num(EMISSION_BASELINES[DieselKey][g].n * 2)]]
            ELSE NoProfile] }
  /\ hist = NoHistory
  /\ last = NoCall
  /\ calls = 0
  /\ dbReadings = <<>>
  /\ dbAlerts = <<>>
  /\ req = NoRequest
  /\ WebInit

NextApi ==
  \/ \E r \in IngestRequests : Ingest(r.deviceId, r.input, r.failAt)
  \/ \E r \in MockRequests :
       GenerateMock([vehicleId |-> r.vehicleId, generateForAll |-> r.generateForAll],
                    r.failAt)
  \/ \E r \in PopulateRequests :
       PopulateHistory([vehicleId |-> r.vehicleId, hoursBack |-> r.hoursBack,
                        intervalMinutes |-> r.intervalMinutes], r.failAt)
  \/ HistoryStep

SpecApi == InitApi /\ [][NextApi]_vars

-----------------------------------------------------------------------------
(* Concurrent requests: the handlers of generateMock and populateHistory    *)
(* (single-vehicle branches) run on one event loop and give way to each     *)
(* other at every await; between two awaits a handler runs alone.  The      *)
(* store accepts every write here.                                          *)

\* the requests the concurrent handlers serve
ConcRequests ==
  { [endpoint |-> "generateMock", vehicleId |-> 1, hoursBack |-> 0, intervalMinutes |-> 0],
    [endpoint |-> "generateMock", vehicleId |-> 9, hoursBack |-> 0, intervalMinutes |-> 0],
    [endpoint |-> "populateHistory", vehicleId |-> 1, hoursBack |-> 0, intervalMinutes |-> 5],
    [endpoint |-> "populateHistory", vehicleId |-> 1, hoursBack |-> 1, intervalMinutes |-> 60] }

\* generateHistoricalData's loop from iteration i on, with the lastReading each
\* generator call read next to the reading it returned
RECURSIVE HistoryCalls(_, _, _, _, _, _, _)
HistoryCalls(store, vehicleId, fuelType, points, d, i, log) ==
  IF ~LoopContinues(i, points) THEN [store |-> store, log |-> log]
  ELSE LET r == generateMockEmissionReading(store, vehicleId, fuelType, <<0, 0>>, d)
       IN HistoryCalls(r.store, vehicleId, fuelType, points, d, i + 1,
                       Append(log, [reference |-> r.reference, reading |-> r.reading]))

\* the next threshold check, from gas number k on, that creates an alert (0:
\* none)
NextDue(values, k) ==
  IF \E j \in k .. Len(GasOrder) : MockAlertDue(values, GasOrder[j])
  THEN CHOOSE j \in k .. Len(GasOrder) :
         /\ MockAlertDue(values, GasOrder[j])
         /\ \A i \in k .. (j - 1) : ~MockAlertDue(values, GasOrder[i])
  ELSE 0

\* the handler returns or throws
Settled(h, status) == [NoHandler EXCEPT !.endpoint = h.endpoint, !.status = status,
                                        !.vehicleId = h.vehicleId]

\* for (const data of historicalData): on to reading k, or return
NextReading(h, k) ==
  IF k > Len(h.data) THEN Settled(h, "ok") ELSE [h EXCEPT !.pc = "insert", !.k = k, !.g = 0]

\* a request arrives: the handler runs up to "await getVehicleById(...)"
ConcBegin(p, r) ==
  /\ handlers[p].pc = "idle"
  /\ calls < MaxCalls
  /\ calls' = calls + 1
  /\ handlers' = [handlers EXCEPT ![p] =
                    [NoHandler EXCEPT !.endpoint = r.endpoint, !.pc = "lookup",
                                      !.vehicleId = r.vehicleId,
                                      !.hoursBack = r.hoursBack,
                                      !.intervalMinutes = r.intervalMinutes]]
  /\ UNCHANGED <<vehicleProfiles, hist, last, dbVars, returned, dash, authVars, fleetVars>>

\* getVehicleById has answered: the handler throws, or runs the generator
\* (one call, or generateHistoricalData's whole loop) up to its first
\* "await createEmissionReading(...)"
ConcGenerate(p) ==
  LET h == handlers[p]
      vehicle == getVehicleById(h.vehicleId)
  IN /\ h.pc = "lookup"
     /\ IF vehicle = NoVehicle
        THEN /\ handlers' = [handlers EXCEPT ![p] = Settled(h, "error")]
             /\ UNCHANGED <<vehicleProfiles, last, returned>>
        ELSE IF h.endpoint = "generateMock"
        THEN \E cd \in CreateDraws(vehicleProfiles, vehicle.id), d \in DrawSamples :
               LET r == generateMockEmissionReading(vehicleProfiles, vehicle.id,
                                                    vehicle.fuelType, cd, d)
               IN /\ vehicleProfiles' = r.store
                  /\ last' = [NoCall EXCEPT !.op = "generate", !.vehicleId = vehicle.id,
                                !.fuelType = vehicle.fuelType, !.created = r.created,
                                !.reference = r.reference, !.baseline = r.baseline,
                                !.readings = <<r.reading>>,
                                !.trendMultiplier = r.trendMultiplier]
                  /\ returned' = [returned EXCEPT ![vehicle.id] =
                                    Append(@, [reference |-> r.reference,
                                               reading |-> r.reading])]
                  /\ handlers' = [handlers EXCEPT ![p] =
                                    NextReading([h EXCEPT !.data = <<r.reading>>], 1)]
        ELSE \E cd \in ApiCreateSamples, d \in DrawSamples :
               LET c == HistoryCalls(HistoryStore(vehicleProfiles, vehicle.id,
                                                  vehicle.fuelType, cd),
                                     vehicle.id, vehicle.fuelType,
                                     Points(h.hoursBack, h.intervalMinutes), d, 0, <<>>)
                   data == [k \in DOMAIN c.log |-> c.log[k].reading]
               IN /\ vehicleProfiles' = c.store
                  /\ last' = [NoCall EXCEPT !.op = "generateHistory",
                                !.vehicleId = vehicle.id, !.fuelType = vehicle.fuelType,
                                !.readings = data, !.hoursBack = h.hoursBack,
                                !.intervalMinutes = h.intervalMinutes]
                  /\ returned' = [returned EXCEPT ![vehicle.id] = c.log]
                  /\ handlers' = [handlers EXCEPT ![p] =
                                    NextReading([h EXCEPT !.data = data], 1)]
     /\ UNCHANGED <<hist, calls, dbVars, dash, authVars, fleetVars>>

\* createEmissionReading has answered: the row is stored and the handler runs
\* its threshold checks up to the first "await createAlert(...)", or on to
\* the next reading, or returns.  sample is populateHistory's Math.random(),
\* in hundredths.
ConcInserted(p, sample) ==
  LET h == handlers[p]
      values == h.data[h.k]
      ex == createEmissionReading(StartOf(vehicleProfiles, dbReadings, dbAlerts, last),
                                  h.vehicleId, values, 0)
      due == IF h.endpoint = "generateMock" THEN NextDue(values, 1)
             ELSE IF sample > 90 /\ MockAlertDue(values, "co2") THEN 1 ELSE 0
  IN /\ h.pc = "insert"
     /\ dbReadings' = ex.dbReadings
     /\ handlers' = [handlers EXCEPT ![p] =
                       IF due = 0 THEN NextReading(h, h.k + 1)
                       ELSE [h EXCEPT !.pc = "alert", !.g = due]]
     /\ UNCHANGED <<coreVars, dbAlerts, req, returned, dash, authVars, fleetVars>>

\* createAlert has answered: the alert is stored and the handler runs on to
\* its next await, or returns
ConcAlerted(p) ==
  LET h == handlers[p]
      values == h.data[h.k]
      g == GasOrder[h.g]
      ex == createAlert(StartOf(vehicleProfiles, dbReadings, dbAlerts, last),
                        h.vehicleId, GasType[g], values[g], Num(thresholds[g]), 0)
      due == IF h.endpoint = "generateMock" THEN NextDue(values, h.g + 1) ELSE 0
  IN /\ h.pc = "alert"
     /\ dbAlerts' = ex.dbAlerts
     /\ handlers' = [handlers EXCEPT ![p] =
                       IF due = 0 THEN NextReading(h, h.k + 1)
                       ELSE [h EXCEPT !.g = due]]
     /\ UNCHANGED <<coreVars, dbReadings, req, returned, dash, authVars, fleetVars>>

NextConc ==
  \/ \E p \in Handlers, r \in ConcRequests : ConcBegin(p, r)
  \/ \E p \in Handlers : ConcGenerate(p)
  \/ \E p \in Handlers, sample \in {50, 95} : ConcInserted(p, sample)
  \/ \E p \in Handlers : ConcAlerted(p)

SpecConc == InitApi /\ [][NextConc]_vars

-----------------------------------------------------------------------------
(* The Dashboard page: vehicle selection, the alerts query, live plotting, *)
(* the certificate download                                                *)

\* getVehicleAlerts: the active alerts of the vehicle
getVehicleAlerts(vehicleId) ==
  LET Mine(row) == row.vehicle_id = vehicleId /\ row.is_active
  IN SelectSeq(dbAlerts, Mine)

\* const vehicleId = selectedVehicleId || vehicles?.[0]?.id
DashVehicleId == OrElse(dash.selectedVehicleId, Num(VehicleRows[1].id))

\* const selectedVehicle = vehicles.find(v => v.id === vehicleId)
selectedVehicle == getVehicleById(DashVehicleId.n)

\* const { data: alerts = [] } = trpc.alerts.vehicleAlerts.useQuery(...)
alerts == IF dash.alertsData.loaded THEN dash.alertsData.data ELSE <<>>

\* const isCompliant = (alerts && alerts.length === 0) || !alerts
isCompliant == Len(alerts) = 0

\* the vehicle ids a page address can name
UrlVehicleIds == {1, 2, 9}

\* the "vehicle" query parameter is read: setSelectedVehicleId(vehicleId); the
\* alerts query of the new vehicle has no data yet
SelectVehicle(vehicleId) ==
  /\ dash.selectedVehicleId # Num(vehicleId)
  /\ dash' = [dash EXCEPT !.selectedVehicleId = Num(vehicleId), !.alertsData = NoData]
  /\ UNCHANGED <<coreVars, dbVars, concVars, fleetVars, authVars>>

\* the alerts query (enabled: !!vehicleId, no refetchInterval) gets its answer
AlertsFetched ==
  /\ ~dash.alertsData.loaded
  /\ dash' = [dash EXCEPT !.alertsData = [loaded |-> TRUE,
                                          data |-> getVehicleAlerts(DashVehicleId.n)]]
  /\ UNCHANGED <<coreVars, dbVars, concVars, fleetVars, authVars>>

\* the live plotting interval fires: continuousMockMutation.mutate({ vehicleId })
LivePlot ==
  GenerateMock([vehicleId |-> DashVehicleId, generateForAll |-> FALSE], 0)

\* handleDownloadCertificate; download records the outcome together with the
\* number of active alerts the store holds for the vehicle at that moment
handleDownloadCertificate ==
  /\ dash' = [dash EXCEPT !.download =
                [outcome |-> IF selectedVehicle = NoVehicle \/ ~isCompliant
                             THEN "refused" ELSE "issued",
                 vehicle |-> selectedVehicle,
                 activeAlerts |-> Len(getVehicleAlerts(DashVehicleId.n))]]
  /\ UNCHANGED <<coreVars, dbVars, concVars, fleetVars, authVars>>

NextDash ==
  \/ \E v \in UrlVehicleIds : SelectVehicle(v)
  \/ AlertsFetched
  \/ LivePlot
  \/ handleDownloadCertificate

SpecDash == InitApi /\ [][NextDash]_vars

-----------------------------------------------------------------------------
(* Login, the request context, and the sessions router *)

Users == {"u1", "u2"}

\* null in "user: User | null"
NoUser == ""

\* who logs in from which browser
Logins == { <<"a", "u1">>, <<"b", "u1">>, <<"b", "u2">> }

\* authenticateRequest behind createContext: the user of the access token in
\* the cookie if Supabase Auth accepts it (supabase.auth.getUser()), else null
authenticateRequest(cookie) ==
  IF cookie.accessToken = 0 THEN NoUser
  ELSE IF \E vt \in validTokens : vt.token = cookie.accessToken
  THEN (CHOOSE vt \in validTokens : vt.token = cookie.accessToken).user
  ELSE NoUser

\* the context of a request to the sessions router, with the cookies presented
Context(endpoint, client) ==
  [endpoint |-> endpoint, client |-> client, cookie |-> cookies[client],
   user |-> authenticateRequest(cookies[client])]

\* POST /api/auth/login with the right password: Supabase Auth issues an
\* access token, createSessionAndHistory inserts the user_sessions row, and
\* the three cookies are set
Login(client, user) ==
  LET token == Len(userSessions) + 1
  IN /\ Len(userSessions) < MaxLogins
     /\ validTokens' = validTokens \cup { [token |-> token, user |-> user] }
     /\ userSessions' = Append(userSessions,
                               [id |-> token, user_id |-> user,
                                session_token |-> token, is_active |-> TRUE])
     /\ cookies' = [cookies EXCEPT ![client] =
                      [accessToken |-> token, sessionToken |-> token]]
     /\ ctx' = [endpoint |-> "login", client |-> client, cookie |-> cookies'[client],
                user |-> user]
     /\ UNCHANGED <<coreVars, dbVars, concVars, fleetVars, dash>>

\* auth.logout: the cookies are cleared
Logout(client) ==
  /\ cookies[client] # NoCookies
  /\ cookies' = [cookies EXCEPT ![client] = NoCookies]
  /\ ctx' = Context("logout", client)
  /\ UNCHANGED <<coreVars, dbVars, concVars, fleetVars, dash, userSessions, validTokens>>

\* Supabase Auth stops accepting an access token (it has expired)
TokenExpires(vt) ==
  /\ vt \in validTokens
  /\ validTokens' = validTokens \ {vt}
  /\ ctx' = [endpoint |-> "expiry", client |-> "", cookie |-> NoCookies, user |-> NoUser]
  /\ UNCHANGED <<coreVars, dbVars, concVars, fleetVars, dash, userSessions, cookies>>

\* revokeUserSession: update is_active = false where id and user_id match
revokeUserSession(rows, sessionId, userId) ==
  [k \in DOMAIN rows |->
     IF rows[k].id = sessionId /\ rows[k].user_id = userId
     THEN [rows[k] EXCEPT !.is_active = FALSE] ELSE rows[k]]

\* revokeAllUserSessions(userId, excludeSessionId?): update is_active = false
\* where user_id matches and is_active, but for the excluded id (0: none given)
revokeAllUserSessions(rows, userId, excludeSessionId) ==
  [k \in DOMAIN rows |->
     IF /\ rows[k].user_id = userId
        /\ rows[k].is_active
        /\ (excludeSessionId # 0 => rows[k].id # excludeSessionId)
     THEN [rows[k] EXCEPT !.is_active = FALSE] ELSE rows[k]]

\* sessions.list, or any other protected query: served for ctx.user only
SessionsList(client) ==
  /\ ctx' = Context("list", client)
  /\ UNCHANGED <<coreVars, dbVars, concVars, fleetVars, dash, userSessions, cookies, validTokens>>

\* sessions.revoke: revokeUserSession(input.sessionId, ctx.user.id)
SessionsRevoke(client, sessionId) ==
  /\ ctx' = Context("revoke", client)
  /\ userSessions' = IF ctx'.user = NoUser THEN userSessions
                     ELSE revokeUserSession(userSessions, sessionId, ctx'.user)
  /\ UNCHANGED <<coreVars, dbVars, concVars, fleetVars, dash, cookies, validTokens>>

\* sessions.revokeAll: revokeAllUserSessions(ctx.user.id)
SessionsRevokeAll(client) ==
  /\ ctx' = Context("revokeAll", client)
  /\ userSessions' = IF ctx'.user = NoUser THEN userSessions
                     ELSE revokeAllUserSessions(userSessions, ctx'.user, 0)
  /\ UNCHANGED <<coreVars, dbVars, concVars, fleetVars, dash, cookies, validTokens>>

-----------------------------------------------------------------------------
(* The vehicles router *)

\* faulty variant: deleteVehicle without the ownership check
deleteVehicleOfAnyone(rows, vehicleId, userId) ==
  LET Others(row) == row.id # vehicleId
  IN IF \E k \in DOMAIN rows : rows[k].id = vehicleId
     THEN [rows |-> SelectSeq(rows, Others), success |-> TRUE]
     ELSE [rows |-> rows, success |-> FALSE]

\* deleteVehicle(vehicleId, userId): false unless getVehicleById finds the
\* vehicle with ownerId === userId; else delete where id and owner_id match
deleteVehicle(rows, vehicleId, userId) ==
  LET Others(row) == ~(row.id = vehicleId /\ row.owner_id = userId)
  IN IF \E k \in DOMAIN rows : rows[k].id = vehicleId /\ rows[k].owner_id = userId
     THEN [rows |-> SelectSeq(rows, Others), success |-> TRUE]
     ELSE [rows |-> rows, success |-> FALSE]

\* the context of a request to the vehicles router, its input and its outcome
FleetContext(endpoint, client, input, error) ==
  [endpoint |-> endpoint, client |-> client, cookie |-> cookies[client],
   user |-> authenticateRequest(cookies[client]), input |-> input, error |-> error]

\* vehicles.create: createVehicle({ ownerId: ctx.user.id, ...input })
VehiclesCreate(client) ==
  LET user == authenticateRequest(cookies[client])
      id == vehicles.serial + 1
  IN /\ vehicles.serial < MaxVehicles
     /\ IF user = NoUser
        THEN /\ ctx' = FleetContext("vehicles.create", client, 0, "Unauthorized")
             /\ UNCHANGED vehicles
        ELSE /\ ctx' = FleetContext("vehicles.create", client, id, "")
             /\ vehicles' = [rows |-> Append(vehicles.rows, [id |-> id, owner_id |-> user]),
                             serial |-> id]
     /\ UNCHANGED <<coreVars, dbVars, concVars, dash, userSessions, cookies, validTokens>>

\* vehicles.delete: deleteVehicle(input.vehicleId, ctx.user.id), throwing when
\* it returns false; the rows of emission_readings and alerts that reference
\* the vehicle are deleted with it (ON DELETE CASCADE)
VehiclesDelete(client, vehicleId) ==
  LET user == authenticateRequest(cookies[client])
      done == deleteVehicle(vehicles.rows, vehicleId, user)
      Kept(row) == row.vehicle_id # vehicleId
  IN /\ IF user = NoUser
        THEN /\ ctx' = FleetContext("vehicles.delete", client, vehicleId, "Unauthorized")
             /\ UNCHANGED <<vehicles, dbReadings, dbAlerts>>
        ELSE IF ~done.success
        THEN /\ ctx' = FleetContext("vehicles.delete", client, vehicleId,
                   "Vehicle not found or you don't have permission to delete it")
             /\ UNCHANGED <<vehicles, dbReadings, dbAlerts>>
        ELSE /\ ctx' = FleetContext("vehicles.delete", client, vehicleId, "")
             /\ vehicles' = [vehicles EXCEPT !.rows = done.rows]
             /\ dbReadings' = SelectSeq(dbReadings, Kept)
             /\ dbAlerts' = SelectSeq(dbAlerts, Kept)
     /\ UNCHANGED <<coreVars, req, concVars, dash, userSessions, cookies, validTokens>>

NextFleet ==
  \/ \E l \in Logins : Login(l[1], l[2])
  \/ \E c \in Clients : Logout(c)
  \/ \E c \in Clients : VehiclesCreate(c)
  \/ \E c \in Clients, id \in 1 .. (MaxVehicles + 1) : VehiclesDelete(c, id)

SpecFleet == Init /\ [][NextFleet]_vars

-----------------------------------------------------------------------------
(* Transitions of the session specification *)

NextAuth ==
  \/ \E l \in Logins : Login(l[1], l[2])
  \/ \E c \in Clients : Logout(c)
  \/ \E vt \in validTokens : TokenExpires(vt)
  \/ \E c \in Clients : SessionsList(c)
  \/ \E c \in Clients, id \in 1 .. MaxLogins : SessionsRevoke(c, id)
  \/ \E c \in Clients : SessionsRevokeAll(c)

SpecAuth == Init /\ [][NextAuth]_vars

\* The running server with profiles already in the store: vehicle 1 holds a
\* profile whose walk has reached the bottom or the top of its range (after
\* enough low, or high, draws every gas sits on its clamp bound; a gas whose
\* baseline is 0 is 0 throughout).
SeedLow(b) == IF b.n = 0 THEN Num(0) ELSE Num((b.n * 2) \div 10)
SeedHigh(b) == Num(b.n * 2)

SeedReading(f, at) ==
  [g \in Gases |->
     IF at = "low" THEN SeedLow(LookupBaseline(toLowerCase(f))[g])
     ELSE SeedHigh(LookupBaseline(toLowerCase(f))[g])]

SeedProfiles ==
  { [NewProfile(1, f, <<9, 9>>) EXCEPT !.lastReading = SeedReading(f, at)] :
      f \in {Diesel, ELECTRIC}, at \in {"low", "high"} }

InitSeeded ==
  /\ vehicleProfiles \in { [v \in VehicleIds |-> IF v = 1 THEN p ELSE NoProfile] :
                             p \in SeedProfiles }
  /\ hist = NoHistory
  /\ last = NoCall
  /\ calls = 0
  /\ dbReadings = <<>>
  /\ dbAlerts = <<>>
  /\ req = NoRequest
  /\ WebInit

SpecSeeded == InitSeeded /\ [][Next]_vars

\* The running server with vehicle 1 holding a profile of any of the five
\* baselines (lpg: the petrol fallback), volatile, whose walk has reached the
\* top of its range; the generator is called and profiles are reset.
TopProfiles ==
  { [NewProfile(1, f, <<9, 9>>) EXCEPT !.lastReading = SeedReading(f, "high")] :
      f \in OwnKeys \cup {Lpg} }

InitTop ==
  /\ vehicleProfiles \in { [v \in VehicleIds |-> IF v = 1 THEN p ELSE NoProfile] :
                             p \in TopProfiles }
  /\ hist = NoHistory
  /\ last = NoCall
  /\ calls = 0
  /\ dbReadings = <<>>
  /\ dbAlerts = <<>>
  /\ req = NoRequest
  /\ WebInit

NextTop ==
  \/ \E rq \in Requests : Generate(rq[1], rq[2])
  \/ \E v \in VehicleIds : Reset(v)

SpecTop == InitTop /\ [][NextTop]_vars

-----------------------------------------------------------------------------
(* Claims *)

\* the profile of the vehicle the last call was made for
LastProfile == vehicleProfiles[last.vehicleId]

\* C1: every value of every returned reading is clamped: within
\* [0.2 x baseline, 2 x baseline] for a gas whose baseline is > 0, within
\* [0, 10] for a gas whose baseline is exactly 0.
C1_ReadingsClamped ==
  \A i \in DOMAIN last.readings : \A g \in Gases :
    LET b == LastProfile.baseline[g]
        v == last.readings[i][g]
    IN IsNum(b) =>
         /\ IsNum(v)
         /\ IF b.n = 0
            THEN 0 <= v.n /\ v.n <= 100
            ELSE 2 * b.n <= 10 * v.n /\ v.n <= 2 * b.n

\* C1's case: an electric profile whose pmLevel walk sits at the top of its
\* range generates again; co2 (baseline 0) is 0 and pmLevel is cut to 2 x 5.
C1_Witness ==
  /\ last.op = "generate"
  /\ last.baseline = EMISSION_BASELINES[ElectricKey]
  /\ last.reference.pmLevel = Num(100)
  /\ last.readings[1].pmLevel = Num(100)
  /\ last.readings[1].co2 = Num(0)

\* C2: between two resets of a vehicle every call finds the trend, volatility
\* and baseline chosen at the profile's creation, whatever fuelType it passes;
\* a call changes nothing of the profile but lastReading.
C2_ProfileStable ==
  [][\A v \in VehicleIds :
       (/\ vehicleProfiles[v].present
        /\ ~(last'.vehicleId = v /\ last'.op \in {"reset", "generateHistory.begin"}))
       => /\ vehicleProfiles'[v].present
          /\ vehicleProfiles'[v] = [vehicleProfiles[v] EXCEPT
                                      !.lastReading = vehicleProfiles'[v].lastReading]]_vars

\* C2's case: a generate call on an existing profile names a fuel type whose
\* baseline is not the profile's.
C2_Witness ==
  /\ last.op = "generate"
  /\ ~last.created
  /\ LookupBaseline(toLowerCase(last.fuelType)) # LastProfile.baseline
  /\ LastProfile.lastReading # LastProfile.baseline

\* C3: a new profile gets the baseline of its fuel type's name, compared
\* without regard to letter case, and the petrol baseline for every other
\* fuel type string.
C3_BaselineOfFuelType ==
  (last.created /\ last.op \in {"generate", "generateHistory.begin"}) =>
     LastProfile.baseline =
       (IF toLowerCase(last.fuelType) \in OwnKeys
        THEN EMISSION_BASELINES[toLowerCase(last.fuelType)]
        ELSE EMISSION_BASELINES[PetrolKey])

\* C4: generate returns exactly the fields co2, co, nox, pmLevel, each a
\* number that is a non-negative multiple of 0.1.
C4_ReadingIsNumeric ==
  last.op = "generate" =>
    \A i \in DOMAIN last.readings :
      /\ DOMAIN last.readings[i] = Gases
      /\ \A g \in Gases : IsNum(last.readings[i][g]) /\ last.readings[i][g].n >= 0

\* C5: for hoursBack >= 0 and intervalMinutes > 0 generateHistory returns
\* floor(hoursBack * 60 / intervalMinutes) + 1 readings, in the order generated:
\* each reading after the first is a step of the walk from the one before it.
C5_HistoryLength ==
  (last.op = "generateHistory" /\ last.hoursBack >= 0 /\ last.intervalMinutes > 0) =>
    /\ Len(last.readings) = ((last.hoursBack * 60) \div last.intervalMinutes) + 1
    /\ \A k \in 1 .. (Len(last.readings) - 1) :
         \E d \in DrawSamples :
           last.readings[k + 1] =
             NewReading([LastProfile EXCEPT !.lastReading = last.readings[k]], d)

\* C5's case: a returned history of two different readings.
C5_Witness ==
  /\ last.op = "generateHistory"
  /\ last.hoursBack = 1
  /\ last.intervalMinutes = 60
  /\ Len(last.readings) = 2
  /\ last.readings[1] # last.readings[2]

\* C6: generateHistory terminates for every pair of numbers: whenever its loop
\* runs another iteration, the bound it counts up to is a finite number.
C6_HistoryLoopEnds ==
  (hist.active /\ LoopContinues(hist.i, hist.points)) => IsNum(hist.points)

\* C7: generateHistory discards the vehicle's profile first: its first reading
\* is computed from the baseline of the fuel type passed, as reference and as
\* clamp anchor.
C7_HistoryStartsFresh ==
  (hist.active /\ hist.i = 1) =>
    LET b == LookupBaseline(toLowerCase(hist.fuelType))
    IN /\ last.op = "generateHistory.step"
       /\ last.reference = b
       /\ last.baseline = b
       /\ \E d \in DrawSamples :
            hist.data[1] =
              NewReading([vehicleProfiles[hist.vehicleId] EXCEPT
                            !.baseline = b, !.lastReading = b], d)

\* C7's case: the vehicle had a profile of another baseline, with a reading
\* generated, when the history began.
C7_Witness ==
  /\ hist.active
  /\ hist.i = 1
  /\ hist.discarded.present
  /\ hist.discarded.baseline # last.baseline
  /\ hist.discarded.lastReading # hist.discarded.baseline
  /\ IsNum(hist.data[1].co2)

C12_LastReadingIsLastReturned ==
  /\ last.op \in {"generate", "generateHistory.step"}
     => /\ LastProfile.present
        /\ \A g \in Gases : LastProfile.lastReading[g] = last.readings[1][g]
  /\ (last.op = "generateHistory" /\ last.readings # <<>>)
     => /\ LastProfile.present
        /\ \A g \in Gases :
             LastProfile.lastReading[g] = last.readings[Len(last.readings)][g]

\* C12's case: a generate call on an existing profile has returned a reading
\* that differs from the one stored before it, and the profile now holds it.
C12_Witness ==
  /\ last.op = "generate"
  /\ ~last.created
  /\ IsNum(last.readings[1].co2)
  /\ last.readings[1] # last.reference
  /\ LastProfile.lastReading = last.readings[1]

\* the operations that fetch, and so create, the profile of their vehicle
FetchingOps == {"generate", "generateHistory.begin", "generateHistory.step", "generateHistory"}

\* C13: the store holds one profile per vehicleId, filed under its own id; a
\* profile exists for V exactly when a generate or generateHistory call for V
\* has happened since the last reset of V: such a call leaves a profile for V,
\* a reset of V leaves none, no call for another vehicle changes whether V has
\* one; a generate call creates the profile only if V had none.
C13_ProfileExistsSinceCall ==
  [][\A v \in VehicleIds :
       /\ vehicleProfiles'[v].present => vehicleProfiles'[v].vehicleId = v
       /\ vehicleProfiles'[v].present <=>
            (IF last'.vehicleId = v /\ last'.op \in FetchingOps THEN TRUE
             ELSE IF last'.vehicleId = v /\ last'.op = "reset" THEN FALSE
             ELSE vehicleProfiles[v].present)
       /\ (last'.vehicleId = v /\ last'.op = "generate")
          => (last'.created <=> ~vehicleProfiles[v].present)]_vars

\* C13's case: a generate call has found the profile an earlier call created
\* and reused it.
C13_Witness ==
  /\ last.op = "generate"
  /\ ~last.created
  /\ calls = 2
  /\ LastProfile.present
  /\ LastProfile.vehicleId = last.vehicleId

\* C14: the generate call for V that follows a reset of V builds a fresh
\* profile: its baseline is that of the call's fuelType, trend and volatility
\* are drawn anew, and the reading is computed with the new baseline as
\* reference.
C14_FreshAfterReset ==
  [][(last.op = "reset" /\ last'.op = "generate" /\ last'.vehicleId = last.vehicleId)
     => LET v == last'.vehicleId
            b == LookupBaseline(toLowerCase(last'.fuelType))
        IN /\ last'.created
           /\ last'.baseline = b
           /\ last'.reference = b
           /\ \E cd \in CreateSamples, d \in DrawSamples :
                LET fresh == NewProfile(v, last'.fuelType, cd)
                IN /\ fresh.baseline = b
                   /\ last'.readings = <<NewReading(fresh, d)>>
                   /\ vehicleProfiles'[v] =
                        [fresh EXCEPT !.lastReading = NewReading(fresh, d)]]_vars

\* C14's case: vehicle 1 held a profile from the start, so a generate call
\* that created one follows a reset; it names the electric fuel type and
\* starts from the electric baseline.
C14_Witness ==
  /\ last.op = "generate"
  /\ last.vehicleId = 1
  /\ last.created
  /\ last.baseline = EMISSION_BASELINES[ElectricKey]
  /\ last.reference = EMISSION_BASELINES[ElectricKey]
  /\ LastProfile.trend = "stable"

\* C15: a reset of V removes the entry of V and nothing else; where V has no
\* profile it changes nothing of the store.
C15_ResetRemovesOne ==
  [][last'.op = "reset" =>
       /\ vehicleProfiles' = [vehicleProfiles EXCEPT ![last'.vehicleId] = NoProfile]
       /\ ~vehicleProfiles[last'.vehicleId].present => vehicleProfiles' = vehicleProfiles]_vars

\* C15's case: vehicle 2 never had a profile (the one call before was for
\* vehicle 1) and has been reset; vehicle 1's profile is still there.
C15_Witness ==
  /\ last.op = "reset"
  /\ last.vehicleId = 2
  /\ calls = 2
  /\ vehicleProfiles[1].present
  /\ ~vehicleProfiles[2].present

\* the rows a request has persisted for vehicle v, in the order persisted
RowsOf(rows, v) == LET Mine(row) == row.vehicle_id = v IN SelectSeq(rows, Mine)

\* C16: the readings populateHistory has persisted for a vehicle carry
\* timestamps intervalMinutes apart, oldest first, within the hoursBack window
\* that ends at the time of the request: the k-th value generated is stored
\* with the k-th timestamp.
C16_HistoryTimestamps ==
  (req.endpoint = "populateHistory" /\ req.status = "ok") =>
    \A v \in VehicleIds :
      LET mine == RowsOf(req.persisted, v)
      IN /\ \A k \in DOMAIN mine :
              /\ mine[k].timestamp >= req.now - req.input.hoursBack * 60
              /\ mine[k].timestamp <= req.now
         /\ \A k \in 1 .. (Len(mine) - 1) :
              mine[k + 1].timestamp = mine[k].timestamp + req.input.intervalMinutes

\* C17: the certificate is produced only for a selected vehicle that has no
\* active alert; with an active alert, or with no vehicle selected, the
\* download is refused and no certificate is made.
C17_CertificateOnlyIfCompliant ==
  dash.download.outcome # "none" =>
    (dash.download.outcome = "issued" <=>
       (dash.download.vehicle # NoVehicle /\ dash.download.activeAlerts = 0))

\* the user_sessions row whose token the cookie carries is there and revoked
Revoked(rows, cookie) ==
  \E k \in DOMAIN rows :
    rows[k].session_token = cookie.sessionToken /\ ~rows[k].is_active

\* C18: sessions.revokeAll deactivates every other active session of the
\* calling user and leaves the session the caller is using as it was.
C18_RevokeAllKeepsCurrent ==
  [][(ctx'.endpoint = "revokeAll" /\ ctx'.user # NoUser) =>
       \A k \in DOMAIN userSessions :
         userSessions'[k] =
           (IF /\ userSessions[k].user_id = ctx'.user
               /\ userSessions[k].session_token # ctx'.cookie.sessionToken
            THEN [userSessions[k] EXCEPT !.is_active = FALSE]
            ELSE userSessions[k])]_vars

\* C19: a request that presents the cookies of a revoked session is not
\* authenticated as the user.
C19_RevokedSessionRejected ==
  (ctx.endpoint = "list" /\ Revoked(userSessions, ctx.cookie)) => ctx.user = NoUser

\* the value is present and strictly greater than the gas's threshold
Exceeds(values, g) == IsNum(values[g]) /\ values[g].n > thresholds[g]

\* the alert row a reading of a request calls for, for gas g
AlertFor(item, g) ==
  [vehicle_id |-> item.vehicleId, gas_type |-> GasType[g],
   measured_value |-> item.values[g], threshold_value |-> Num(thresholds[g]),
   is_active |-> TRUE]

\* the alert rows a request's readings call for, reading by reading, gas by gas
ExpectedAlerts(items) ==
  LET n == Len(GasOrder)
      ItemOf(k) == items[((k - 1) \div n) + 1]
      GasOf(k) == GasOrder[((k - 1) % n) + 1]
      Due(k) == Exceeds(ItemOf(k).values, GasOf(k))
      picked == SelectSeq([k \in 1 .. (n * Len(items)) |-> k], Due)
  IN [j \in DOMAIN picked |-> AlertFor(ItemOf(picked[j]), GasOf(picked[j]))]

\* C8: in ingest and generateMock an alert is created for a gas if and only if
\* the reading's value is present and strictly greater than the threshold
\* (co2 1000, co 50, nox 100, pmLevel 100); each alert carries the gas's
\* gasType, the reading's value as measuredValue and the threshold as
\* thresholdValue. (Every alert created answers to such a value; a request
\* that completes has created exactly the alerts its readings call for.)
C8_AlertIffAboveThreshold ==
  req.endpoint \in {"ingest", "generateMock"} =>
    /\ \A k \in DOMAIN req.alerts :
         \E i \in DOMAIN req.items, g \in Gases :
           /\ Exceeds(req.items[i].values, g)
           /\ req.alerts[k] = AlertFor(req.items[i], g)
    /\ req.status = "ok" => req.alerts = ExpectedAlerts(req.items)

\* C8's case: an ingest with co2 and nox exactly at their thresholds, co just
\* above its own and pmLevel absent has created the CO alert alone.
C8_Witness ==
  /\ req.endpoint = "ingest"
  /\ req.status = "ok"
  /\ req.items[1].values.co2 = Num(thresholds.co2)
  /\ req.items[1].values.nox = Num(thresholds.nox)
  /\ req.items[1].values.pmLevel = Null
  /\ Len(req.alerts) = 1
  /\ req.alerts[1].gas_type = "CO"
  /\ req.alerts[1].measured_value = Num(501)

\* C9: every reading a completed request has persisted, by whichever endpoint,
\* with a gas value strictly above its threshold has an alert created for that
\* vehicle and gas.
C9_PersistedExceedanceAlerted ==
  req.status = "ok" =>
    \A i \in DOMAIN req.items : \A g \in Gases :
      Exceeds(req.items[i].values, g) =>
        \E k \in DOMAIN req.alerts : req.alerts[k] = AlertFor(req.items[i], g)

\* C10: an operation for vehicle V leaves the stored profile of every other
\* vehicle as it was.
C10_OtherProfilesUnchanged ==
  [][\A w \in VehicleIds :
       w # last'.vehicleId => vehicleProfiles'[w] = vehicleProfiles[w]]_vars

\* C10's case: vehicle 1 is reset while vehicle 2 holds a profile.
C10_Witness ==
  /\ last.op = "reset"
  /\ last.vehicleId = 1
  /\ vehicleProfiles[2].present

\* round1(clamp(ref x (1 + f x volatility) x m)) for a gas of baseline b: ref
\* and b in tenths, f in 1/100000, volatility in hundredths, m in thousandths
Round1Clamp(b, ref, f, volatility, m) ==
  Num(MathRound(Clamp(b, MulShift(ref * m, 10000000 + volatility * f))))

\* the values B of the four gases, in hundredths
HalfWidth == [co2 |-> 20, co |-> 25, nox |-> 20, pmLevel |-> 30]

\* the multipliers m, the correlation factors c and the fractions f (of a
\* half-width w) that the calls of the model draw from
Multipliers == { TrendMultiplier(LastProfile.trend, d.t) : d \in DrawSamples }
Correlations == { CorrelationFactor(d.c) : d \in DrawSamples }
Fractions(c) ==
  { w * c * (2 * d.v[g] - 10) : w \in {20, 25, 30}, d \in DrawSamples, g \in Gases }

\* C20: within one generate call, each gas's returned value equals
\* round1(clamp(ref x (1 + f x volatility) x m)), where ref is that gas's value
\* in the previous reading of the vehicle (the baseline on the first call after
\* creation), m is one trend multiplier shared by the four gases, and
\* |f| <= B x c with one correlation factor c in [0.7, 1.0) shared by the four
\* gases and B = 0.2 for co2, 0.25 for co, 0.2 for nox, 0.3 for pmLevel.  (A
\* gas whose reference is not a number comes back as NaN.)
C20_GenerateFormula ==
  last.op = "generate" =>
    /\ last.created => last.reference = last.baseline
    /\ \E m \in Multipliers, c \in Correlations :
         /\ 70 <= c /\ c < 100
         /\ \A g \in Gases :
              LET b == last.baseline[g]
                  ref == last.reference[g]
                  v == last.readings[1][g]
              IN IF IsNum(b) /\ IsNum(ref)
                 THEN \E f \in Fractions(c) :
                        /\ 0 - HalfWidth[g] * c * 10 <= f
                        /\ f <= HalfWidth[g] * c * 10
                        /\ v = Round1Clamp(b.n, ref.n, f, LastProfile.volatility, m)
                 ELSE v = NaN

\* C20's case: a generate call on an existing profile whose previous reading
\* had left the baseline, returning values strictly inside the clamp range
\* that differ from the previous ones.
C20_Witness ==
  /\ last.op = "generate"
  /\ ~last.created
  /\ \A g \in Gases :
       /\ IsNum(last.baseline[g]) /\ IsNum(last.reference[g])
       /\ last.baseline[g].n > 0
       /\ last.reference[g] # last.baseline[g]
       /\ last.readings[1][g] # last.reference[g]
       /\ last.readings[1][g].n * 10 > last.baseline[g].n * 2
       /\ last.readings[1][g].n < last.baseline[g].n * 2

\* C21: the trend multiplier used by a generate call lies in the range of the
\* profile's trend: [0.95, 1.05] for stable, [1.0, 1.05] for increasing (never
\* below 1), [0.95, 1.0] for decreasing (never above 1), [0.85, 1.15] for
\* volatile.
C21_TrendMultiplierInRange ==
  last.op \in {"generate", "generateHistory.step"} =>
    LET m == last.trendMultiplier
        trend == LastProfile.trend
    IN CASE trend = "stable" -> 950 <= m /\ m <= 1050
         [] trend = "increasing" -> 1000 <= m /\ m <= 1050
         [] trend = "decreasing" -> 950 <= m /\ m <= 1000
         [] trend = "volatile" -> 850 <= m /\ m <= 1150
         [] OTHER -> FALSE

\* C21's case: a generate call on a profile of an increasing trend has used a
\* multiplier above 1.
C21_Witness ==
  /\ last.op = "generate"
  /\ LastProfile.trend = "increasing"
  /\ last.trendMultiplier > 1000

\* the column of a gas in emission_readings
ColumnOf == [co2 |-> "co2", co |-> "co", nox |-> "nox", pmLevel |-> "pm_level"]

\* C22: every reading persisted by generateMock or populateHistory stores, for
\* each of the four gases, exactly the numeric value the generator returned
\* for that gas, a returned 0 being stored as 0 and not as null.
C22_PersistedAsReturned ==
  req.endpoint \in {"generateMock", "populateHistory"} =>
    \A k \in DOMAIN req.persisted : \A g \in Gases :
      IsNum(req.items[k].values[g]) =>
        req.persisted[k][ColumnOf[g]] = req.items[k].values[g]

\* C23: ingest with a deviceId that resolves to no vehicle fails with the
\* error "Vehicle not found" and has no effect: no emission reading is
\* persisted and no alert is created.
C23_IngestUnknownDevice ==
  [][(/\ calls' # calls
      /\ req'.endpoint = "ingest"
      /\ \A k \in DOMAIN VehicleRows : VehicleRows[k].deviceId # req'.input.deviceId)
     => /\ req'.status = "error"
        /\ req'.error = "Vehicle not found"
        /\ req'.persisted = <<>> /\ req'.alerts = <<>>
        /\ dbReadings' = dbReadings
        /\ dbAlerts' = dbAlerts
        /\ vehicleProfiles' = vehicleProfiles]_vars

\* C23's case: an ingest for a device no vehicle has was refused while the
\* store held a reading and an alert of an earlier request, and its values
\* exceeded thresholds.
C23_Witness ==
  /\ req.endpoint = "ingest"
  /\ req.input.deviceId = "dev-9"
  /\ req.error = "Vehicle not found"
  /\ IsNum(req.input.co2) /\ req.input.co2.n > 10000
  /\ dbReadings # <<>>
  /\ dbAlerts # <<>>

\* C24: a generateMock that fails its precondition (vehicleId given but no
\* such vehicle exists, or neither a vehicleId nor generateForAll supplied)
\* returns an error and leaves the profile store, the persisted readings and
\* the alerts unchanged: no profile is created or advanced.
C24_MockPreconditionFails ==
  [][(/\ calls' # calls
      /\ req'.endpoint = "generateMock"
      /\ ~req'.input.generateForAll
      /\ \/ req'.input.vehicleId = Undefined
         \/ /\ IsNum(req'.input.vehicleId)
            /\ \A k \in DOMAIN VehicleRows : VehicleRows[k].id # req'.input.vehicleId.n)
     => /\ req'.status = "error"
        /\ req'.error \in {"Vehicle not found",
                           "Either vehicleId or generateForAll must be provided"}
        /\ vehicleProfiles' = vehicleProfiles
        /\ dbReadings' = dbReadings
        /\ dbAlerts' = dbAlerts]_vars

\* C24's case: a generateMock for an id no vehicle has was refused while a
\* profile and a persisted reading of an earlier request existed.
C24_Witness ==
  /\ req.endpoint = "generateMock"
  /\ req.input.vehicleId = Num(9)
  /\ req.status = "error"
  /\ \E v \in VehicleIds : vehicleProfiles[v].present
  /\ dbReadings # <<>>

\* C24's other case: a generateMock with neither vehicleId nor generateForAll
\* was refused.
C24_WitnessNeither ==
  /\ req.endpoint = "generateMock"
  /\ req.input.vehicleId = Undefined
  /\ req.status = "error"
  /\ dbReadings # <<>>

\* C25: in ingest and generateMock an alert for a reading is created only
\* after that reading has been persisted; if persisting the reading fails, no
\* alert is created for it and the request ends in an error.  (One request
\* handles one reading per vehicle, so the vehicle names the reading.)
C25_AlertAfterPersist ==
  req.endpoint \in {"ingest", "generateMock"} =>
    /\ \A a \in DOMAIN req.alerts :
         \E k \in DOMAIN req.persisted :
           req.persisted[k].vehicle_id = req.alerts[a].vehicle_id
    /\ \A k \in DOMAIN req.items :
         k \notin DOMAIN req.persisted =>
           /\ req.status = "error"
           /\ \A a \in DOMAIN req.alerts :
                req.alerts[a].vehicle_id # req.items[k].vehicleId

\* C25's case: the store failed to persist a reading whose co exceeds the
\* threshold; the request ended in an error with no alert.
C25_Witness ==
  /\ req.endpoint \in {"ingest", "generateMock"}
  /\ req.status = "error"
  /\ Len(req.items) > Len(req.persisted)
  /\ LET it == req.items[Len(req.items)]
     IN \E g \in Gases : IsNum(it.values[g]) /\ it.values[g].n > thresholds[g]
  /\ req.alerts = <<>>

\* C26: under any interleaving of concurrent generateMock and populateHistory
\* requests for the same vehicle V, each call of the generator runs atomically,
\* so no update of V's lastReading is lost: between resets the readings
\* returned for V form a single chain in which each reading's reference is the
\* reading returned immediately before it for V, and the profile holds the
\* chain's last reading.
C26_SingleChain ==
  \A v \in VehicleIds :
    LET c == returned[v]
    IN /\ \A k \in 2 .. Len(c) : c[k].reference = c[k - 1].reading
       /\ c # <<>> => /\ vehicleProfiles[v].present
                       /\ vehicleProfiles[v].lastReading = c[Len(c)].reading

\* C26's case: two generateMock handlers for vehicle 1 are in flight at once,
\* the second's generator call having run while the first was suspended at an
\* await, and the two readings differ.
C26_Witness ==
  /\ \A p \in Handlers :
       /\ handlers[p].endpoint = "generateMock"
       /\ handlers[p].vehicleId = 1
       /\ handlers[p].pc \in {"insert", "alert"}
  /\ Len(returned[1]) = 2
  /\ returned[1][2].reading # returned[1][1].reading
  /\ handlers[1].data # handlers[2].data

\* C26's other case: a populateHistory handler has run its generator loop
\* while a generateMock handler for the same vehicle was suspended.
C26_WitnessHistory ==
  /\ handlers[1].endpoint = "generateMock" /\ handlers[1].pc \in {"insert", "alert"}
  /\ handlers[2].endpoint = "populateHistory" /\ handlers[2].pc = "insert"
  /\ handlers[1].vehicleId = handlers[2].vehicleId
  /\ Len(returned[1]) = 2
  /\ returned[1][1].reading = handlers[2].data[1]

\* C27: a reading of the generator exceeds a threshold only for co2 on a
\* profile with the diesel baseline: for every other baseline (petrol and the
\* petrol fallback, hybrid, electric, cng) no generated reading exceeds any
\* threshold, and no generated reading of any fuel type exceeds the CO, NOx or
\* PM threshold.
C27_OnlyDieselCo2Exceeds ==
  \A i \in DOMAIN last.readings : \A g \in Gases :
    (IsNum(last.readings[i][g]) /\ last.readings[i][g].n > thresholds[g])
      => /\ g = "co2"
         /\ LastProfile.baseline = EMISSION_BASELINES[DieselKey]

\* C27's case: a profile with the petrol baseline at the top of its range has
\* returned a co2 above 880 (below the threshold of 1000).
C27_Witness ==
  /\ last.op = "generate"
  /\ LastProfile.baseline = EMISSION_BASELINES[PetrolKey]
  /\ last.readings[1].co2.n > 8800
  /\ last.readings[1].co2.n <= thresholds.co2

\* C27's other case: a diesel profile has returned a co2 above the threshold.
C27_WitnessDiesel ==
  /\ last.op = "generate"
  /\ LastProfile.baseline = EMISSION_BASELINES[DieselKey]
  /\ last.readings[1].co2.n > thresholds.co2

\* C28: for a profile created with the electric baseline, co2, co and nox are
\* exactly 0 in every generated reading, for any trend, volatility and number
\* of calls, while pmLevel stays within [1, 10].
C28_ElectricStaysZero ==
  (last.readings # <<>> /\ LastProfile.baseline = EMISSION_BASELINES[ElectricKey]) =>
    /\ \A i \in DOMAIN last.readings :
         /\ last.readings[i].co2 = Num(0)
         /\ last.readings[i].co = Num(0)
         /\ last.readings[i].nox = Num(0)
         /\ IsNum(last.readings[i].pmLevel)
         /\ 10 <= last.readings[i].pmLevel.n /\ last.readings[i].pmLevel.n <= 100
    /\ LastProfile.lastReading.co2 = Num(0)
    /\ LastProfile.lastReading.co = Num(0)
    /\ LastProfile.lastReading.nox = Num(0)

\* C28's case: a later call on an electric profile has returned zeros with a
\* pmLevel that moved and lies strictly inside its range.
C28_Witness ==
  /\ last.op = "generate"
  /\ ~last.created
  /\ LastProfile.baseline = EMISSION_BASELINES[ElectricKey]
  /\ last.readings[1].co2 = Num(0)
  /\ last.readings[1].pmLevel # last.reference.pmLevel
  /\ last.readings[1].pmLevel.n > 10 /\ last.readings[1].pmLevel.n < 100

\* every alert row stays in the store as it is, and is active
C29_AlertsStayActive ==
  [][\A k \in DOMAIN dbAlerts :
       /\ dbAlerts[k].is_active
       /\ k \in DOMAIN dbAlerts'
       /\ dbAlerts'[k] = dbAlerts[k]]_vars

\* C29: every alert is created active and no operation sets an alert
\* inactive, so once an alert has been created for a vehicle the vehicle is
\* reported non-compliant, and its certificate download refused, in every
\* later state.
C29_AlertedStaysNonCompliant ==
  [][\A v \in VehicleIds :
       (\E k \in DOMAIN dbAlerts : dbAlerts[k].vehicle_id = v) =>
         /\ \A k \in DOMAIN dbAlerts :
              dbAlerts[k].is_active /\ k \in DOMAIN dbAlerts' /\ dbAlerts'[k] = dbAlerts[k]
         /\ (dash'.download # dash.download /\ dash'.download.vehicle.id = v)
              => dash'.download.outcome = "refused"]_vars

\* C30: vehicles.delete removes a vehicle only when it exists and is owned by
\* the calling user, and then only that vehicle; for a missing vehicle or one
\* owned by someone else nothing is deleted and the call fails with "Vehicle
\* not found or you don't have permission to delete it".
C30_DeleteOnlyOwn ==
  [][(ctx'.endpoint = "vehicles.delete" /\ ctx'.user # NoUser) =>
       LET Target(row) == row.id = ctx'.input
           Others(row) == row.id # ctx'.input
           mine == \E k \in DOMAIN vehicles.rows :
                     /\ vehicles.rows[k].id = ctx'.input
                     /\ vehicles.rows[k].owner_id = ctx'.user
       IN IF mine
          THEN /\ vehicles'.rows = SelectSeq(vehicles.rows, Others)
               /\ ctx'.error = ""
          ELSE /\ vehicles' = vehicles
               /\ ctx'.error =
                    "Vehicle not found or you don't have permission to delete it"]_vars

\* C30's case: a logged-in user's delete of a vehicle that exists and belongs
\* to someone else was refused, and the vehicle is still there.
C30_Witness ==
  /\ ctx.endpoint = "vehicles.delete"
  /\ ctx.user # NoUser
  /\ ctx.error # ""
  /\ \E k \in DOMAIN vehicles.rows :
       /\ vehicles.rows[k].id = ctx.input
       /\ vehicles.rows[k].owner_id # ctx.user

\* C30's other case: an owner's delete has removed one of two vehicles.
C30_WitnessDeleted ==
  /\ ctx.endpoint = "vehicles.delete"
  /\ ctx.error = ""
  /\ Len(vehicles.rows) = 1
  /\ vehicles.rows[1].id # ctx.input

=============================================================================
